---- MODULE Spec2Model ----
(***************************************************************************)
(* Model of the client-side video export core of Aios-VISu:                *)
(*   - the encoder session manager (src/src/utils/ffmpeg.ts): getFFmpeg    *)
(*     and fetchWithRetry;                                                 *)
(*   - the frame pipeline (src/src/utils/videoExporter.ts): exportToVideo. *)
(* JavaScript runs each task to completion between two awaits, so every    *)
(* action below is one such run: the code from one await (or from the      *)
(* call) up to the next await, promise reactions included.                 *)
(***************************************************************************)
EXTENDS Integers, Sequences, FiniteSets, TLC

\* ------------------------------------------------------------------ bounds
\* getFFmpeg calls made in one behaviour
MaxCalls == 3
\* FFmpeg instances constructed (initialization attempts) in one behaviour
MaxAttempts == 2

\* fetch tries that the network lets fail in one behaviour
MaxFailures == 7
\* the durations an export is called with: n/1 and n/2 seconds, n up to MaxDurationNum
MaxDurationNum == 3
\* the frame rates an export is called with: 1 .. MaxFps
MaxFps == 4
\* exportToVideo calls a caller makes one after the other in one behaviour
MaxRuns == 2
\* the frame indices named on their own: those within MaxNear of a power of ten
MaxNear == 1

\* ------------------------------------------------------- program constants
\* fetchWithRetry(urls, retries = 3)
Retries == 3
\* the url lists handed to fetchWithRetry hold the primary and the fallback
NumUrls == 2
\* setTimeout(resolve, 1000 * Math.pow(2, i))
BackoffBase == 1000
\* const { duration = 3, fps = 30, ... } = options
DefaultDuration == 3
DefaultFps == 30
DefaultQuality == 23
\* animations = [{ type: 'fade', duration: 1 }]
DefaultAnimations == <<"fade">>
\* const batchSize = 5
BatchSize == 5
\* frame.toString().padStart(6, '0')
PadWidth == 6

Resources == {"core", "wasm", "worker"}
Attempts == 1 .. MaxAttempts

RECURSIVE Pow2(_)
Pow2(n) == IF n = 0 THEN 1 ELSE 2 * Pow2(n - 1)

\* a backoff that waits the same delay after every failed try
BackoffDelay_Constant(i) == BackoffBase

\* the delay of the backoff timer armed after the failed try i
BackoffDelay(i) == BackoffBase * Pow2(i)

VARIABLES
  ffmpeg,          \* module variable: 0 (null) or the FFmpeg instance
  isLoading,       \* module variable
  loadingPromise,  \* module variable: 0 (null) or the attempt whose promise it is
  iife,            \* per attempt: the async function behind loadingPromise
  fw,              \* per attempt and resource: the fetchWithRetry call
  loaded,          \* per instance: load() has completed successfully
  loadCalls,       \* per instance: number of load() calls made on it
  calls,           \* the getFFmpeg calls made so far, in order
  failures,        \* number of fetch tries that have failed so far
  ex,              \* the exportToVideo call: its options, locals and position
  frames,          \* per frame launched by the export: its capture and write
  fs,              \* the encoder's storage: the frames directory and output.mp4
  clone,           \* the off-screen clone: "none", "attached" or "removed"
  written,         \* per file name: completed writeFile calls of the export
  execCalls,       \* the ffmpeg.exec invocations made, in order
  cloneAnim,       \* the frame whose applyAnimations last set the clone's style
  runs,            \* the exports the caller has seen settle before this one
  probe,           \* two frame indices, for the frame names taken on their own
  source,          \* the source element: its place in the document and its style
  ui               \* the export control component: its isExporting state

sessionVars == <<ffmpeg, isLoading, loadingPromise, iife, fw, loaded, loadCalls, calls,
                 failures>>
exportVars == <<ex, frames, fs, clone, written, execCalls, cloneAnim, runs, probe, source,
               ui>>
vars == <<sessionVars, exportVars>>

\* a fetchWithRetry call that has not been made
FwIdle == [st |-> "idle", url |-> 0, i |-> 0, log |-> <<>>, waits |-> <<>>,
           lastError |-> <<>>]

\* fetchWithRetry entered: the first fetch of the first url is in flight
FwStart == [st |-> "fetch", url |-> 1, i |-> 0, log |-> <<1>>, waits |-> <<>>,
            lastError |-> <<>>]

IifeNone == [phase |-> "none", on |-> 0, value |-> 0, cause |-> <<>>]

\* ------------------------------------------------------------ exportToVideo
\* const { duration = 3, fps = 30, ... } = options: an option the caller left out
\* (opts.given names the ones it set) takes its default
Default(opts, key, d) == IF key \in opts.given THEN opts[key] ELSE d

\* durations are fractions of a second, [n |-> numerator, d |-> denominator]
DurationOf(opts) == Default(opts, "duration", [n |-> DefaultDuration, d |-> 1])
FpsOf(opts) == Default(opts, "fps", DefaultFps)
QualityOf(opts) == Default(opts, "quality", DefaultQuality)
\* the directive list, as the sequence of its directives' types
AnimationsOf(opts) == Default(opts, "animations", DefaultAnimations)

\* an options object with nothing set
NoOptions == [given |-> {}, duration |-> [n |-> 0, d |-> 1], fps |-> 0, quality |-> 0,
              animations |-> <<>>]

\* Math.floor(duration * fps)
TotalFrames(duration, fps) == (duration.n * fps) \div duration.d

Min(a, b) == IF a < b THEN a ELSE b

\* a batch that is always full, also past the last frame
BatchFrames_NoMin(i, total) == {i + j : j \in 0 .. (BatchSize - 1)}

\* the frames of the batch that starts at frame i:
\* Array.from({ length: Math.min(batchSize, totalFrames - i) }, (_, j) => i + j)
BatchFrames(i, total) == {i + j : j \in 0 .. (Min(BatchSize, total - i) - 1)}

DigitChar == <<"0", "1", "2", "3", "4", "5", "6", "7", "8", "9">>

\* Number.prototype.toString() of a non-negative integer, as a sequence of characters
RECURSIVE toString(_)
toString(n) == IF n < 10 THEN <<DigitChar[n + 1]>>
               ELSE Append(toString(n \div 10), DigitChar[(n % 10) + 1])

\* String.prototype.padStart(len, ch)
RECURSIVE PadStart(_, _, _)
PadStart(str, len, ch) == IF Len(str) >= len THEN str ELSE PadStart(<<ch>> \o str, len, ch)

\* `frames/frame${frame.toString().padStart(6, '0')}.png`
FrameName(frame) == <<"frames/frame">> \o PadStart(toString(frame), PadWidth, "0") \o <<".png">>

\* the export before it is called with options opts
ExStart(opts) == [pc |-> "idle", opts |-> opts, duration |-> [n |-> 0, d |-> 1], fps |-> 0,
                  quality |-> 0, animations |-> <<>>,
                  call |-> 0, ff |-> 0, totalFrames |-> 0, i |-> 0, batch |-> 0,
                  result |-> "none", cause |-> <<>>]

FsEmpty == [dir |-> FALSE, files |-> {}, out |-> FALSE]

\* the style of an element no applyAnimations call has touched
NoAnim == -1

\* the element exportToVideo is given: in the document, its style as the page set it
SourceStart == [attached |-> TRUE, anim |-> NoAnim]

\* the components that offer the video export
Components == {"ExportControls", "VideoExportControls"}

\* const [isExporting, setIsExporting] = useState(false), and whether the
\* component's handler is waiting for the export it started
UiIdle(c) == [component |-> c, isExporting |-> FALSE, awaiting |-> FALSE, clicks |-> 0]

\* the names of the frames i and j, built as the frame callback builds them
NamesOf(i, j) == [i |-> i, j |-> j, ni |-> FrameName(i), nj |-> FrameName(j)]

ProbeStart == NamesOf(0, 0)

ExportIdle(opts) ==
  /\ ex = ExStart(opts)
  /\ frames = <<>>
  /\ fs = FsEmpty
  /\ clone = "none"
  /\ written = <<>>
  /\ execCalls = <<>>
  /\ cloneAnim = NoAnim
  /\ runs = <<>>
  /\ probe = ProbeStart
  /\ source = SourceStart

SessionInit ==
  /\ ffmpeg = 0
  /\ isLoading = FALSE
  /\ loadingPromise = 0
  /\ iife = [k \in Attempts |-> IifeNone]
  /\ fw = [k \in Attempts |-> [r \in Resources |-> FwIdle]]
  /\ loaded = [k \in Attempts |-> FALSE]
  /\ loadCalls = [k \in Attempts |-> 0]
  /\ calls = <<>>
  /\ failures = 0

Init ==
  /\ SessionInit
  /\ ExportIdle(NoOptions)
  /\ ui = UiIdle("ExportControls")

\* the session states of the spec, read off the module variables
Uninitialized == ffmpeg = 0 /\ ~isLoading
Loading == isLoading
Ready == ffmpeg # 0 /\ ~isLoading
SessionState == IF isLoading THEN "Loading" ELSE IF ffmpeg # 0 THEN "Ready" ELSE "Uninitialized"

\* number of FFmpeg instances constructed so far
Constructed == Cardinality({k \in Attempts : iife[k].phase # "none"})

\* a promise returned by getFFmpeg settles with the promise it adopted
SettleCalls(cs, k, res, h, cause) ==
  [n \in DOMAIN cs |->
     IF cs[n].promise = k /\ cs[n].result = "pending"
     THEN [cs[n] EXCEPT !.result = res, !.handle = h, !.cause = cause]
     ELSE cs[n]]

\* a catch block that keeps the encoder it failed to load
FailAttempt_KeepsEncoder(k, cause) ==
  /\ ffmpeg' = ffmpeg
  /\ isLoading' = FALSE
  /\ loadingPromise' = 0
  /\ iife' = [iife EXCEPT ![k] = [phase |-> "rejected", on |-> iife[k].on, value |-> 0,
                                  cause |-> <<"FFmpeg initialization failed">> \o cause]]
  /\ calls' = SettleCalls(calls, k, "rejected", 0,
                          <<"FFmpeg initialization failed">> \o cause)

\* getFFmpeg's catch and finally blocks, run when an await of the attempt throws
FailAttempt(k, cause) ==
  /\ ffmpeg' = 0
  /\ isLoading' = FALSE
  /\ loadingPromise' = 0
  /\ iife' = [iife EXCEPT ![k] = [phase |-> "rejected", on |-> iife[k].on, value |-> 0,
                                  cause |-> <<"FFmpeg initialization failed">> \o cause]]
  /\ calls' = SettleCalls(calls, k, "rejected", 0,
                          <<"FFmpeg initialization failed">> \o cause)

\* a getFFmpeg that starts the load without keeping its promise
StartLoad_DropsPromise(k) ==
  /\ isLoading' = TRUE
  /\ ffmpeg' = k
  /\ iife' = [iife EXCEPT ![k] = [IifeNone EXCEPT !.phase = "fetching"]]
  /\ fw' = [fw EXCEPT ![k] = [r \in Resources |-> FwStart]]
  /\ loadingPromise' = 0
  /\ calls' = Append(calls, [state |-> SessionState, flight |-> k, promise |-> k,
                             result |-> "pending", handle |-> 0, cause |-> <<>>,
                             started |-> TRUE])
  /\ UNCHANGED <<loaded, loadCalls, failures>>

\* what getFFmpeg does when the session is neither ready nor loading
StartLoad(k) ==
  /\ isLoading' = TRUE
  /\ ffmpeg' = k
  /\ iife' = [iife EXCEPT ![k] = [IifeNone EXCEPT !.phase = "fetching"]]
  /\ fw' = [fw EXCEPT ![k] = [r \in Resources |-> FwStart]]
  /\ loadingPromise' = k
  /\ calls' = Append(calls, [state |-> SessionState, flight |-> k, promise |-> k,
                             result |-> "pending", handle |-> 0, cause |-> <<>>,
                             started |-> TRUE])
  /\ UNCHANGED <<loaded, loadCalls, failures>>

\* the early return of a call that finds ffmpeg set
ReturnExisting ==
  /\ calls' = Append(calls, [state |-> SessionState, flight |-> loadingPromise,
                             promise |-> 0, result |-> "handle", handle |-> ffmpeg,
                             cause |-> <<>>, started |-> FALSE])
  /\ UNCHANGED <<ffmpeg, isLoading, loadingPromise, iife, fw, loaded, loadCalls, failures>>

\* the return of loadingPromise by a call that finds a load in flight
JoinLoad ==
  /\ calls' = Append(calls, [state |-> SessionState, flight |-> loadingPromise,
                             promise |-> loadingPromise,
                             result |-> "pending", handle |-> 0, cause |-> <<>>,
                             started |-> FALSE])
  /\ UNCHANGED <<ffmpeg, isLoading, loadingPromise, iife, fw, loaded, loadCalls, failures>>

\* a getFFmpeg that starts a load on every call, whatever the session's state
GetFFmpegCall_NoSingleFlight ==
  /\ Len(calls) < MaxCalls
  /\ Constructed < MaxAttempts
  /\ StartLoad(Constructed + 1)

\* a getFFmpeg without the early return of the existing encoder
GetFFmpegCall_NoReadyCheck ==
  /\ Len(calls) < MaxCalls
  /\ IF isLoading /\ loadingPromise # 0
     THEN JoinLoad
     ELSE /\ Constructed < MaxAttempts
          /\ StartLoad(Constructed + 1)

GetFFmpegCall ==
  /\ Len(calls) < MaxCalls
  /\ IF ffmpeg # 0
     THEN ReturnExisting
     ELSE IF isLoading /\ loadingPromise # 0
          THEN JoinLoad
          ELSE /\ Constructed < MaxAttempts
               /\ StartLoad(Constructed + 1)

\* a getFFmpeg call by any caller
GetFFmpeg ==
  /\ GetFFmpegCall
  /\ UNCHANGED exportVars

\* fetchWithRetry returns the response of the url tried last: its loop variables
\* are gone, the response is what is left of the call
FwReturn(f) == [FwIdle EXCEPT !.st = "ok", !.url = f.url]

\* fetchWithRetry throws lastError: the error is what is left of the call
FwThrow(e) == [FwIdle EXCEPT !.st = "failed", !.lastError = e]

\* a try's fetch resolves with response.ok: fetchWithRetry returns the response;
\* when it was the last of the three, Promise.all resolves and the attempt goes on
FetchOk(k, r) ==
  /\ fw[k][r].st = "fetch"
  /\ fw' = [fw EXCEPT ![k][r] = FwReturn(fw[k][r])]
  /\ IF iife[k].phase = "fetching" /\ \A q \in Resources \ {r} : fw[k][q].st = "ok"
     THEN iife' = [iife EXCEPT ![k].phase = "blobs"]
     ELSE UNCHANGED iife
  /\ UNCHANGED <<ffmpeg, isLoading, loadingPromise, loaded, loadCalls, calls, failures>>
  /\ UNCHANGED exportVars

\* a fetchWithRetry that leaves a url after its first failed try
AfterFailure_NoRetry(f) ==
  LET e == <<f.url, f.i>> IN
  IF f.url < NumUrls
  THEN [f EXCEPT !.st = "fetch", !.url = f.url + 1, !.i = 0,
                 !.log = Append(f.log, f.url + 1), !.lastError = e]
  ELSE FwThrow(e)

\* the position of fetchWithRetry's two loops after a failed try
AfterFailure(f) ==
  LET e == <<f.url, f.i>> IN
  IF f.i = Retries - 1
  THEN IF f.url < NumUrls
       THEN [f EXCEPT !.st = "fetch", !.url = f.url + 1, !.i = 0,
                      !.log = Append(f.log, f.url + 1), !.lastError = e]
       ELSE FwThrow(e)
  ELSE [f EXCEPT !.st = "wait", !.waits = Append(f.waits, BackoffDelay(f.i)),
                 !.lastError = e]

\* a try's fetch rejects, or resolves with a response that is not ok
FetchFail(k, r) ==
  /\ fw[k][r].st = "fetch"
  /\ failures < MaxFailures
  /\ failures' = failures + 1
  /\ fw' = [fw EXCEPT ![k][r] = AfterFailure(fw[k][r])]
  /\ IF fw'[k][r].st = "failed" /\ iife[k].phase = "fetching"
     THEN /\ FailAttempt(k, <<"fetch", r>> \o fw'[k][r].lastError)
          /\ UNCHANGED <<loaded, loadCalls>>
     ELSE UNCHANGED <<ffmpeg, isLoading, loadingPromise, iife, loaded, loadCalls, calls>>
  /\ UNCHANGED exportVars

\* the inner loop's next try, of the same url
AfterWait(f) == [f EXCEPT !.st = "fetch", !.i = f.i + 1, !.log = Append(f.log, f.url)]

\* the backoff timer fires: the inner loop goes to the next try of the same url
TimerFire(k, r) ==
  /\ fw[k][r].st = "wait"
  /\ fw' = [fw EXCEPT ![k][r] = AfterWait(fw[k][r])]
  /\ UNCHANGED <<ffmpeg, isLoading, loadingPromise, iife, loaded, loadCalls, calls, failures>>
  /\ UNCHANGED exportVars

\* the three response.blob() conversions resolve
BlobsDone(k) ==
  /\ iife[k].phase = "blobs"
  /\ iife' = [iife EXCEPT ![k].phase = "urls"]
  /\ UNCHANGED <<ffmpeg, isLoading, loadingPromise, fw, loaded, loadCalls, calls, failures>>
  /\ UNCHANGED exportVars

\* an attempt that clears the loading flags when it calls load(), not when load() is over
UrlsDone_ClearsEarly(k) ==
  /\ iife[k].phase = "urls"
  /\ ffmpeg # 0
  /\ iife' = [iife EXCEPT ![k].phase = "loading", ![k].on = ffmpeg]
  /\ loadCalls' = [loadCalls EXCEPT ![ffmpeg] = @ + 1]
  /\ isLoading' = FALSE
  /\ loadingPromise' = 0
  /\ UNCHANGED <<ffmpeg, calls, fw, loaded, failures>>
  /\ UNCHANGED exportVars

\* the three toBlobURL calls resolve: load() is called on the module's ffmpeg
\* (ffmpeg!.load throws when the variable is null)
UrlsDone(k) ==
  /\ iife[k].phase = "urls"
  /\ IF ffmpeg = 0
     THEN /\ FailAttempt(k, <<"null">>)
          /\ UNCHANGED loadCalls
     ELSE /\ iife' = [iife EXCEPT ![k].phase = "loading", ![k].on = ffmpeg]
          /\ loadCalls' = [loadCalls EXCEPT ![ffmpeg] = @ + 1]
          /\ UNCHANGED <<ffmpeg, isLoading, loadingPromise, calls>>
  /\ UNCHANGED <<fw, loaded, failures>>
  /\ UNCHANGED exportVars

\* a blob conversion or a toBlobURL call rejects
ConvertFail(k) ==
  /\ iife[k].phase \in {"blobs", "urls"}
  /\ FailAttempt(k, <<iife[k].phase>>)
  /\ UNCHANGED <<fw, loaded, loadCalls, failures>>
  /\ UNCHANGED exportVars

\* load() resolves: the attempt returns the module's ffmpeg; finally clears the flags
LoadOk(k) ==
  /\ iife[k].phase = "loading"
  /\ loaded' = [loaded EXCEPT ![iife[k].on] = TRUE]
  /\ iife' = [iife EXCEPT ![k].phase = "resolved", ![k].value = ffmpeg]
  /\ calls' = SettleCalls(calls, k, "handle", ffmpeg, <<>>)
  /\ isLoading' = FALSE
  /\ loadingPromise' = 0
  /\ UNCHANGED <<ffmpeg, fw, loadCalls, failures>>
  /\ UNCHANGED exportVars

\* load() rejects
LoadFail(k) ==
  /\ iife[k].phase = "loading"
  /\ FailAttempt(k, <<"load">>)
  /\ UNCHANGED <<fw, loaded, loadCalls, failures>>
  /\ UNCHANGED exportVars

Next ==
  \/ GetFFmpeg
  \/ \E k \in Attempts, r \in Resources : FetchOk(k, r)
  \/ \E k \in Attempts, r \in Resources : FetchFail(k, r)
  \/ \E k \in Attempts, r \in Resources : TimerFire(k, r)
  \/ \E k \in Attempts : BlobsDone(k)
  \/ \E k \in Attempts : UrlsDone(k)
  \/ \E k \in Attempts : ConvertFail(k)
  \/ \E k \in Attempts : LoadOk(k)
  \/ \E k \in Attempts : LoadFail(k)

Spec == Init /\ [][Next]_vars

\* --------------------------------------------------- exportToVideo, the steps
\* the captures of one batch, all called before the first of them is awaited
Launch(fr, i, total, b) ==
  [f \in DOMAIN fr \cup BatchFrames(i, total) |->
     IF f \in BatchFrames(i, total)
     THEN [st |-> "anim", batch |-> b, seen |-> NoAnim, pos |-> f, renderer |-> "none"]
     ELSE fr[f]]

\* the directive types applyAnimations has a case for: each adds a tween
TweenKinds == {"fade", "slide", "zoom", "rotate"}
HasTweens(animations) == \E k \in DOMAIN animations : animations[k] \in TweenKinds

\* animations?.some(a => a.type === '3d')
Is3D(animations) == \E k \in DOMAIN animations : animations[k] = "3d"

\* the timeline is not paused: after timeline.progress(progress) it plays on and
\* onComplete fires with the playhead at its end; position f stands for the
\* progress f / total, position total for the end. A timeline without tweens
\* has no duration: it completes where it is
PlayheadAtComplete(animations, f, total) == IF HasTweens(animations) THEN total ELSE f

\* a captureFrame that is handed the source element
CaptureTarget_Source == "source"

\* captureFrame({ time, element: clone, ... })
CaptureTarget == "clone"

\* the callbacks of a batch run one after the other, each up to its first await:
\* every one has called applyAnimations(clone, frame / totalFrames), which sets
\* the clone's style on the spot, so the clone is left as the last of them set it
LastApplied(i, total) ==
  CHOOSE f \in BatchFrames(i, total) : \A g \in BatchFrames(i, total) : g <= f

\* the style the applyAnimations calls of the batch leave on the element they
\* are given
ApplyBatch(i, total) ==
  /\ cloneAnim' = IF CaptureTarget = "clone" THEN LastApplied(i, total) ELSE cloneAnim
  /\ source' = IF CaptureTarget = "source"
               THEN [source EXCEPT !.anim = LastApplied(i, total)]
               ELSE source

\* ffmpeg.exec([... '-framerate', fps.toString(), ...]) is called
\* an argument list with the default frame rate written into it
ExecArgs_FixedRate(e, files) ==
  [framerate |-> toString(DefaultFps), crf |-> toString(e.quality), input |-> files]

\* ['-framerate', fps.toString(), '-i', 'frames/frame%06d.png', ...,
\*  '-crf', quality.toString(), ...] and the files the input pattern finds
ExecArgs(e, files) ==
  [framerate |-> toString(e.fps), crf |-> toString(e.quality), input |-> files]

CallExec(e) == Append(execCalls, ExecArgs(e, fs.files))

\* a failure path without the finally block: the clone stays in the document
Abort_KeepsClone(cause) ==
  /\ clone' = clone
  /\ ex' = [ex EXCEPT !.pc = "failed", !.result = "rejected", !.cause = cause]

\* an outer catch that reports the error and returns instead of rethrowing
Abort_Swallows(cause) ==
  /\ clone' = IF clone = "attached" THEN "removed" ELSE clone
  /\ ex' = [ex EXCEPT !.pc = "failed", !.result = "resolved", !.cause = <<>>]

\* the finally block (the clone leaves the document) and the outer catch (rethrow)
Abort(cause) ==
  /\ clone' = IF clone = "attached" THEN "removed" ELSE clone
  /\ ex' = [ex EXCEPT !.pc = "failed", !.result = "rejected", !.cause = cause]

\* exportToVideo up to its first await: the options are destructured and
\* getFFmpeg is called
CallExport(e) ==
  /\ GetFFmpegCall
  /\ ex' = [e EXCEPT !.pc = "acquire", !.call = Len(calls) + 1,
                     !.duration = DurationOf(e.opts), !.fps = FpsOf(e.opts),
                     !.quality = QualityOf(e.opts),
                     !.animations = AnimationsOf(e.opts)]

\* exportToVideo is called
ExportCall ==
  /\ ex.pc = "idle"
  /\ CallExport(ex)
  /\ UNCHANGED <<frames, fs, clone, written, execCalls, cloneAnim, runs, probe, source, ui>>

\* an export that clones the element before it awaits getFFmpeg
ExportAcquired_ClonesFirst ==
  /\ ex.pc = "acquire"
  /\ calls[ex.call].result # "pending"
  /\ IF calls[ex.call].result = "rejected"
     THEN /\ clone' = "removed"
          /\ ex' = [ex EXCEPT !.pc = "failed", !.result = "rejected",
                              !.cause = calls[ex.call].cause]
     ELSE IF calls[ex.call].handle = 0
          THEN Abort(<<"Failed to initialize FFmpeg">>)
          ELSE /\ ex' = [ex EXCEPT !.pc = "createDir", !.ff = calls[ex.call].handle]
               /\ UNCHANGED clone
  /\ UNCHANGED <<frames, fs, written, execCalls, cloneAnim, runs, probe, source, ui>>
  /\ UNCHANGED sessionVars

\* await getFFmpeg() is over: it threw, or createDir('frames') is called
ExportAcquired ==
  /\ ex.pc = "acquire"
  /\ calls[ex.call].result # "pending"
  /\ IF calls[ex.call].result = "rejected"
     THEN Abort(calls[ex.call].cause)
     ELSE IF calls[ex.call].handle = 0
          THEN Abort(<<"Failed to initialize FFmpeg">>)
          ELSE /\ ex' = [ex EXCEPT !.pc = "createDir", !.ff = calls[ex.call].handle]
               /\ UNCHANGED clone
  /\ UNCHANGED <<frames, fs, written, execCalls, cloneAnim, runs, probe, source, ui>>
  /\ UNCHANGED sessionVars

\* the loop test i < totalFrames: the next batch is launched, or exec is called
LoopOrExec(e, i, b) ==
  IF i < e.totalFrames
  THEN /\ frames' = Launch(frames, i, e.totalFrames, b)
       /\ ApplyBatch(i, e.totalFrames)
       /\ ex' = [e EXCEPT !.pc = "batch", !.i = i, !.batch = b]
       /\ UNCHANGED execCalls
  ELSE /\ ex' = [e EXCEPT !.pc = "exec", !.i = i]
       /\ execCalls' = CallExec(e)
       /\ UNCHANGED <<frames, cloneAnim, source>>

\* createDir resolves: totalFrames is computed, the clone is appended to the
\* document and the batch loop is entered
CreateDirOk ==
  /\ ex.pc = "createDir"
  /\ loaded[ex.ff]
  /\ ~fs.dir
  /\ fs' = [fs EXCEPT !.dir = TRUE]
  /\ clone' = "attached"
  /\ LoopOrExec([ex EXCEPT !.totalFrames = TotalFrames(ex.duration, ex.fps)], 0, 1)
  /\ UNCHANGED <<written, runs, probe, ui>>
  /\ UNCHANGED sessionVars

\* a timeline whose onComplete never fires
AnimDone_Never(f) ==
  /\ FALSE
  /\ UNCHANGED vars

\* the timeline of frame f completes and applyAnimations resolves: captureFrame
\* hands the clone, as it is by now, to the rasterizer
AnimDone(f) ==
  /\ f \in DOMAIN frames
  /\ frames[f].st = "anim"
  /\ frames' = [frames EXCEPT
                  ![f].st = "capture",
                  ![f].seen = cloneAnim,
                  ![f].pos = PlayheadAtComplete(ex.animations, f, ex.totalFrames),
                  ![f].renderer = IF Is3D(ex.animations) THEN "live" ELSE "none"]
  /\ UNCHANGED <<ex, fs, clone, written, execCalls, cloneAnim, runs, probe, source, ui>>
  /\ UNCHANGED sessionVars

\* captureFrame resolves for frame f (on the 3D path render3DFrame resolved and
\* the renderer is disposed): writeFile(frameName, data) is called
CaptureOk(f) ==
  /\ f \in DOMAIN frames
  /\ frames[f].st = "capture"
  /\ frames' = [frames EXCEPT
                  ![f].st = "write",
                  ![f].renderer = IF @ = "live" THEN "disposed" ELSE @]
  /\ UNCHANGED <<ex, fs, clone, written, execCalls, cloneAnim, runs, probe, source, ui>>
  /\ UNCHANGED sessionVars

\* a barrier that opens with the first resolved promise of the batch (Promise.race)
BatchDone_Any(fr, b) == \E f \in DOMAIN fr : fr[f].batch = b /\ fr[f].st = "done"

\* a barrier that waits for the captures but not for the writes of the batch
BatchDone_Captured(fr, b) ==
  \A f \in DOMAIN fr : fr[f].batch = b => fr[f].st \in {"write", "done"}

\* Promise.all(batch) has every promise of the batch resolved
BatchDone(fr, b) == \A f \in DOMAIN fr : fr[f].batch = b => fr[f].st = "done"

\* writeFile resolves for frame f: its callback returns; when it was the last of
\* the batch, await Promise.all(batch) is over and the loop goes on
WriteOk(f) ==
  /\ f \in DOMAIN frames
  /\ frames[f].st = "write"
  /\ fs.dir
  /\ fs' = [fs EXCEPT !.files = @ \cup {FrameName(f)}]
  /\ written' = IF FrameName(f) \in DOMAIN written
                THEN [written EXCEPT ![FrameName(f)] = @ + 1]
                ELSE written @@ (FrameName(f) :> 1)
  /\ LET fr == [frames EXCEPT ![f].st = "done"] IN
     IF ex.pc = "batch" /\ frames[f].batch = ex.batch /\ BatchDone(fr, ex.batch)
     THEN IF ex.i + BatchSize < ex.totalFrames
          THEN /\ frames' = Launch(fr, ex.i + BatchSize, ex.totalFrames, ex.batch + 1)
               /\ ApplyBatch(ex.i + BatchSize, ex.totalFrames)
               /\ ex' = [ex EXCEPT !.i = ex.i + BatchSize, !.batch = ex.batch + 1]
               /\ UNCHANGED execCalls
          ELSE /\ frames' = fr
               /\ ex' = [ex EXCEPT !.pc = "exec", !.i = ex.i + BatchSize]
               /\ execCalls' = Append(execCalls, ExecArgs(ex, fs'.files))
               /\ UNCHANGED <<cloneAnim, source>>
     ELSE /\ frames' = fr
          /\ UNCHANGED <<ex, execCalls, cloneAnim, source>>
  /\ UNCHANGED <<clone, runs, probe, ui>>
  /\ UNCHANGED sessionVars

\* a frame callback that logs the error and does not rethrow it
FrameFail_NoRethrow(f) ==
  /\ f \in DOMAIN frames
  /\ frames[f].st \in {"capture", "write"}
  /\ frames' = [frames EXCEPT ![f].st = "failed"]
  /\ UNCHANGED <<ex, clone>>
  /\ UNCHANGED <<fs, written, execCalls, cloneAnim, runs, probe, source, ui>>
  /\ UNCHANGED sessionVars

\* captureFrame or writeFile rejects for frame f: its callback rethrows; the first
\* rejection of the batch ends await Promise.all(batch) with that error
FrameFail(f) ==
  /\ f \in DOMAIN frames
  /\ frames[f].st \in {"capture", "write"}
  /\ frames' = [frames EXCEPT ![f].st = "failed"]
  /\ IF ex.pc = "batch" /\ frames[f].batch = ex.batch
     THEN Abort(<<frames[f].st, f>>)
     ELSE UNCHANGED <<ex, clone>>
  /\ UNCHANGED <<fs, written, execCalls, cloneAnim, runs, probe, source, ui>>
  /\ UNCHANGED sessionVars

\* exec resolves: output.mp4 exists when there were frames to encode;
\* readFile('output.mp4') is called
ExecOk ==
  /\ ex.pc = "exec"
  /\ fs' = [fs EXCEPT !.out = (fs.files # {})]
  /\ ex' = [ex EXCEPT !.pc = "read"]
  /\ UNCHANGED <<frames, clone, written, execCalls, cloneAnim, runs, probe, source, ui>>
  /\ UNCHANGED sessionVars

\* readFile resolves: deleteDir('frames') is called
ReadOk ==
  /\ ex.pc = "read"
  /\ fs.out
  /\ ex' = [ex EXCEPT !.pc = "deleteDir"]
  /\ UNCHANGED <<frames, fs, clone, written, execCalls, cloneAnim, runs, probe, source, ui>>
  /\ UNCHANGED sessionVars

\* a deleteDir that resolves without removing anything
DeleteDirOk_KeepsDir ==
  /\ ex.pc = "deleteDir"
  /\ fs.dir
  /\ ex' = [ex EXCEPT !.pc = "delete"]
  /\ UNCHANGED <<frames, fs, clone, written, execCalls, cloneAnim, runs, probe, source, ui>>
  /\ UNCHANGED sessionVars

\* deleteDir resolves: delete('output.mp4') is called
DeleteDirOk ==
  /\ ex.pc = "deleteDir"
  /\ fs.dir
  /\ fs' = [fs EXCEPT !.dir = FALSE, !.files = {}]
  /\ ex' = [ex EXCEPT !.pc = "delete"]
  /\ UNCHANGED <<frames, clone, written, execCalls, cloneAnim, runs, probe, source, ui>>
  /\ UNCHANGED sessionVars

\* delete resolves: the blob is returned; finally removes the clone
DeleteOk ==
  /\ ex.pc = "delete"
  /\ fs.out
  /\ fs' = [fs EXCEPT !.out = FALSE]
  /\ ex' = [ex EXCEPT !.pc = "done", !.result = "blob"]
  /\ clone' = IF clone = "attached" THEN "removed" ELSE clone
  /\ UNCHANGED <<frames, written, execCalls, cloneAnim, runs, probe, source, ui>>
  /\ UNCHANGED sessionVars

\* one of the awaited encoder calls of the export's own sequence rejects
EncoderCallFail ==
  /\ ex.pc \in {"createDir", "exec", "read", "deleteDir", "delete"}
  /\ Abort(<<ex.pc>>)
  /\ UNCHANGED <<frames, fs, written, execCalls, cloneAnim, runs, probe, source, ui>>
  /\ UNCHANGED sessionVars

\* the caller, which awaited the export and saw it settle, calls exportToVideo
\* again with the same element and options once the captures the settled call
\* had in flight are over; the encoder and its storage are the ones it left
ExportAgain ==
  /\ ex.result # "none"
  /\ \A f \in DOMAIN frames : frames[f].st \in {"done", "failed"}
  /\ Len(runs) + 1 < MaxRuns
  /\ runs' = Append(runs, [opts |-> ex.opts, result |-> ex.result, cause |-> ex.cause,
                           written |-> written, execCalls |-> execCalls])
  /\ ex' = ExStart(ex.opts)
  /\ frames' = <<>>
  /\ written' = <<>>
  /\ execCalls' = <<>>
  /\ clone' = "none"
  /\ cloneAnim' = NoAnim
  /\ UNCHANGED <<fs, probe, source, ui>>
  /\ UNCHANGED sessionVars

\* the frames an export can have launched
FrameIds == 0 .. (MaxDurationNum * DefaultFps + BatchSize)

\* the steps of an export that has been called
ExportSteps ==
  \/ ExportAcquired
  \/ CreateDirOk
  \/ \E f \in FrameIds : AnimDone(f)
  \/ \E f \in FrameIds : CaptureOk(f)
  \/ \E f \in FrameIds : WriteOk(f)
  \/ \E f \in FrameIds : FrameFail(f)
  \/ ExecOk
  \/ ReadOk
  \/ DeleteDirOk
  \/ DeleteOk
  \/ EncoderCallFail

ExportNext ==
  \/ ExportCall
  \/ ExportSteps

\* the options exportToVideo is called with
Durations == {[n |-> a, d |-> b] : a \in 1 .. MaxDurationNum, b \in {1, 2}}
Qualities == {18, 28}
\* directive lists: none, the presets of ExportControls, and lists with '3d'
Presets == {<<"fade">>, <<"slide", "fade">>, <<"zoom">>, <<"rotate">>}
Directives == {<<>>, <<"3d">>, <<"rotate", "3d">>} \cup Presets
Options ==
  [given : {{"duration", "fps"}}, duration : Durations, fps : 1 .. MaxFps, quality : {0},
   animations : {<<>>}]
  \cup [given : {{"duration", "fps", "quality"}}, duration : {d \in Durations : d.n = 1},
        fps : {MaxFps}, quality : Qualities, animations : {<<>>}]
  \cup [given : {{"duration"}}, duration : {d \in Durations : d.n = 1 /\ d.d = 2},
        fps : {0}, quality : {0}, animations : {<<>>}]
  \cup [given : {{"duration", "fps", "animations"}},
        duration : {d \in Durations : d.n = 1 /\ d.d = 2},
        fps : {MaxFps}, quality : {0}, animations : Directives]

\* the session after one successful initialization: Ready
ReadySession ==
  /\ ffmpeg = 1
  /\ isLoading = FALSE
  /\ loadingPromise = 0
  /\ iife = [k \in Attempts |-> IF k = 1
                                THEN [phase |-> "resolved", on |-> 1, value |-> 1, cause |-> <<>>]
                                ELSE IifeNone]
  /\ fw = [k \in Attempts |-> [r \in Resources |->
             IF k = 1 THEN FwReturn(FwStart) ELSE FwIdle]]
  /\ loaded = [k \in Attempts |-> k = 1]
  /\ loadCalls = [k \in Attempts |-> IF k = 1 THEN 1 ELSE 0]
  /\ calls = <<[state |-> "Uninitialized", flight |-> 1, promise |-> 1,
                result |-> "handle", handle |-> 1, cause |-> <<>>, started |-> TRUE]>>
  /\ failures = 0

ExportInit ==
  /\ ReadySession
  /\ \E opts \in Options : ExportIdle(opts)
  /\ ui = UiIdle("ExportControls")

ExportSpec == ExportInit /\ [][ExportNext]_vars

\* a caller that exports the same element again after each export has settled
RepeatOptions == {o \in Options : o.given = {"duration", "fps"} /\ o.duration.d = 2}

RepeatInit ==
  /\ ReadySession
  /\ \E opts \in RepeatOptions : ExportIdle(opts)
  /\ ui = UiIdle("ExportControls")

RepeatNext ==
  \/ ExportNext
  \/ ExportAgain

RepeatSpec == RepeatInit /\ [][RepeatNext]_vars

\* an export on a fresh page: the session is Uninitialized and the export is
\* the only caller of getFFmpeg
SystemOptions ==
  {o \in RepeatOptions : o.duration.n = 1}
  \cup {o \in Options : o.animations \in {<<>>, <<"3d">>} /\ "animations" \in o.given}

SystemInit ==
  /\ SessionInit
  /\ \E opts \in SystemOptions : ExportIdle(opts)
  /\ ui = UiIdle("ExportControls")

SystemNext ==
  \/ \E k \in Attempts, r \in Resources : FetchOk(k, r)
  \/ \E k \in Attempts, r \in Resources : FetchFail(k, r)
  \/ \E k \in Attempts, r \in Resources : TimerFire(k, r)
  \/ \E k \in Attempts : BlobsDone(k)
  \/ \E k \in Attempts : UrlsDone(k)
  \/ \E k \in Attempts : ConvertFail(k)
  \/ \E k \in Attempts : LoadOk(k)
  \/ \E k \in Attempts : LoadFail(k)
  \/ ExportNext

SystemSpec == SystemInit /\ [][SystemNext]_vars

\* every awaited step that can resolve or reject eventually does: the fetches
\* and their timers, the conversions, load, the timelines, the rasterizer and
\* the encoder calls
SystemFairSpec == SystemSpec /\ WF_vars(SystemNext)

\* ------------------------------------------- the export control components
\* a handler that starts the export without setIsExporting(true)
Click_NoFlag ==
  /\ ~ui.isExporting
  /\ ui.clicks < MaxRuns
  /\ ui' = [ui EXCEPT !.awaiting = TRUE, !.clicks = @ + 1]
  /\ IF ex.pc = "idle"
     THEN /\ CallExport(ex)
          /\ UNCHANGED <<frames, clone, written, execCalls, cloneAnim, runs>>
     ELSE /\ ex.result # "none"
          /\ \A f \in DOMAIN frames : frames[f].st \in {"done", "failed"}
          /\ CallExport(ExStart(ex.opts))
          /\ runs' = Append(runs, [opts |-> ex.opts, result |-> ex.result,
                                   cause |-> ex.cause, written |-> written,
                                   execCalls |-> execCalls])
          /\ frames' = <<>>
          /\ written' = <<>>
          /\ execCalls' = <<>>
          /\ clone' = "none"
          /\ cloneAnim' = NoAnim
  /\ UNCHANGED <<fs, probe, source>>

\* the video button, rendered with disabled={isExporting}, is clicked: the
\* handler (exportAsVideo, handleExport) sets isExporting and calls
\* exportToVideo with the component's settings; a click after an earlier export
\* is followed once the captures that export had in flight are over
Click ==
  /\ ~ui.isExporting
  /\ ui.clicks < MaxRuns
  /\ ui' = [ui EXCEPT !.isExporting = TRUE, !.awaiting = TRUE, !.clicks = @ + 1]
  /\ IF ex.pc = "idle"
     THEN /\ CallExport(ex)
          /\ UNCHANGED <<frames, clone, written, execCalls, cloneAnim, runs>>
     ELSE /\ ex.result # "none"
          /\ \A f \in DOMAIN frames : frames[f].st \in {"done", "failed"}
          /\ CallExport(ExStart(ex.opts))
          /\ runs' = Append(runs, [opts |-> ex.opts, result |-> ex.result,
                                   cause |-> ex.cause, written |-> written,
                                   execCalls |-> execCalls])
          /\ frames' = <<>>
          /\ written' = <<>>
          /\ execCalls' = <<>>
          /\ clone' = "none"
          /\ cloneAnim' = NoAnim
  /\ UNCHANGED <<fs, probe, source>>

\* await exportToVideo(...) is over in the handler: the blob is offered for
\* download or the failure is shown, and finally does setIsExporting(false)
HandlerSettled ==
  /\ ui.awaiting
  /\ ex.result # "none"
  /\ ui' = [ui EXCEPT !.isExporting = FALSE, !.awaiting = FALSE]
  /\ UNCHANGED <<ex, frames, fs, clone, written, execCalls, cloneAnim, runs, probe, source>>
  /\ UNCHANGED sessionVars

\* the settings each component passes to exportToVideo
UiOptions(c) ==
  IF c = "ExportControls"
  THEN {o \in Options : "animations" \in o.given /\ o.animations \in Presets}
  ELSE {o \in Options : o.given = {"duration", "fps"} /\ o.duration.n = 1
                                                      /\ o.duration.d = 2}

UiInit ==
  /\ ReadySession
  /\ \E c \in Components :
       /\ ui = UiIdle(c)
       /\ \E opts \in UiOptions(c) : ExportIdle(opts)

UiNext ==
  \/ Click
  \/ HandlerSettled
  \/ ExportSteps

UiSpec == UiInit /\ [][UiNext]_vars

\* the reaction to a settled promise runs
UiFairSpec == UiSpec /\ WF_vars(HandlerSettled)

\* ------------------------------------------------- frame names on their own
RECURSIVE Pow10(_)
Pow10(n) == IF n = 0 THEN 1 ELSE 10 * Pow10(n - 1)

\* the first index whose decimal string is longer than the pad width
PadLimit == Pow10(PadWidth)

NameIndices ==
  (0 .. MaxNear)
  \cup UNION {(Pow10(k) - MaxNear) .. (Pow10(k) + MaxNear) : k \in 1 .. PadWidth}

\* the frame callback builds the names of two frames
NameFrames ==
  /\ \E i \in NameIndices, j \in NameIndices : probe' = NamesOf(i, j)
  /\ UNCHANGED <<ex, frames, fs, clone, written, execCalls, cloneAnim, runs, source, ui>>
  /\ UNCHANGED sessionVars

NameNext == NameFrames

NameSpec == Init /\ [][NameNext]_vars

\* ------------------------------------------------------------------ claims
Last(q) == q[Len(q)]
IsPrefix(p, q) == Len(p) <= Len(q) /\ SubSeq(q, 1, Len(p)) = p
CallIds == DOMAIN calls
FwPairs == Attempts \X Resources
Live(f) == f.st \in {"fetch", "wait"}

\* C1: the calls issued while a load is in flight start no load sequence of their
\* own (no instance is constructed but by the call that found the session
\* uninitialized, no instance has load() called twice), and every call of one
\* flight that has received a handle has received that flight's instance.
C1_SingleFlight ==
  /\ \A n \in CallIds :
       /\ calls[n].state = "Loading" => ~calls[n].started
       /\ calls[n].started => calls[n].state = "Uninitialized"
       /\ (calls[n].state # "Ready" /\ calls[n].result = "handle")
            => calls[n].handle = calls[n].flight
  /\ Cardinality({n \in CallIds : calls[n].started}) = Constructed
  /\ \A k \in Attempts : loadCalls[k] <= 1

\* three calls of one flight, the starter and two issued while loading, hold handles
C1_Witness ==
  \E a, b, c \in CallIds :
    /\ a < b /\ b < c
    /\ calls[a].started /\ calls[b].state = "Loading" /\ calls[c].state = "Loading"
    /\ calls[b].flight = calls[a].flight /\ calls[c].flight = calls[a].flight
    /\ calls[a].result = "handle" /\ calls[b].result = "handle" /\ calls[c].result = "handle"

\* C2: a call made while the session is loading shares the attempt's outcome: no
\* call holds a handle whose load() has not completed, and a call issued during
\* an attempt that failed is rejected.
C2_JoinersShareOutcome ==
  \A n \in CallIds :
    /\ calls[n].result = "handle" => loaded[calls[n].handle]
    /\ (calls[n].state = "Loading" /\ iife[calls[n].flight].phase = "rejected")
         => calls[n].result = "rejected"

C4_OneSequenceRunning ==
  Cardinality({k \in Attempts : \E r \in Resources : Live(fw[k][r])}) <= 1

\* C5: the session moves only Uninitialized -> Loading, Loading -> Ready (in the
\* step in which load() succeeds), Loading -> Uninitialized (failure); a ready
\* session stays ready with the same encoder.
C5_Lifecycle ==
  [][/\ SessionState = "Uninitialized" => SessionState' \in {"Uninitialized", "Loading"}
     /\ (SessionState = "Loading" /\ SessionState' = "Ready")
          => (loaded'[ffmpeg'] /\ ~loaded[ffmpeg'])
     /\ SessionState' = "Ready" => loaded'[ffmpeg']
     /\ SessionState = "Ready" => (SessionState' = "Ready" /\ ffmpeg' = ffmpeg)
    ]_vars

\* the session is ready with its second instance, the first attempt having failed
C5_Witness ==
  /\ iife[1].phase = "rejected"
  /\ iife[2].phase = "resolved"
  /\ SessionState = "Ready"
  /\ ffmpeg = 2

\* C6: a getFFmpeg call made when the session is ready returns the existing
\* instance at once and changes nothing: no fetch, no load() call.
C6_ReadyReturnsExisting ==
  [][(SessionState = "Ready" /\ Len(calls') = Len(calls) + 1) =>
       /\ Last(calls').result = "handle"
       /\ Last(calls').handle = ffmpeg
       /\ UNCHANGED <<ffmpeg, isLoading, loadingPromise, iife, fw, loaded, loadCalls>>
    ]_vars

\* two calls were made on a ready session and both hold its instance
C6_Witness ==
  \E a, b \in CallIds :
    /\ a < b
    /\ calls[a].state = "Ready" /\ calls[b].state = "Ready"
    /\ calls[a].handle = ffmpeg /\ calls[b].handle = ffmpeg

\* the urls fetchWithRetry tries when every try fails: each url Retries times
UrlOrder == [n \in 1 .. (NumUrls * Retries) |-> ((n - 1) \div Retries) + 1]

\* C7: the urls a running fetchWithRetry has tried are a prefix of primary x3,
\* fallback x3; it returns the response of the try that succeeded and tries no
\* more; it throws only after all six tries.
C7_FetchOrder ==
  [][\A p \in FwPairs :
       LET f == fw[p[1]][p[2]]
           g == fw'[p[1]][p[2]] IN
       /\ Live(g) => (IsPrefix(g.log, UrlOrder) /\ g.url = Last(g.log))
       /\ (f.st = "fetch" /\ g.st = "ok") => g.url = Last(f.log)
       /\ (f.st # "failed" /\ g.st = "failed") => f.log = UrlOrder
       /\ f.st \in {"ok", "failed"} => g = f
    ]_vars

\* one fetch sequence of an attempt failed after six tries, another returned
C7_Witness ==
  \E k \in Attempts : \E r, q \in Resources :
    /\ fw[k][r].st = "failed"
    /\ fw[k][r].lastError = <<NumUrls, Retries - 1>>
    /\ fw[k][q].st = "ok"

\* the tries of a running fetchWithRetry that have failed
FailedTries(f) == IF f.st = "fetch" THEN Len(f.log) - 1 ELSE Len(f.log)

\* C8 as stated: every failed try i = 0, 1, 2 of a url is followed by a wait of
\* 1000 * 2^i ms.
C8_WaitAfterEveryFailure ==
  \A p \in FwPairs :
    LET f == fw[p[1]][p[2]] IN
    Live(f) =>
      /\ Len(f.waits) = FailedTries(f)
      /\ \A n \in 1 .. Len(f.waits) : f.waits[n] = BackoffBase * Pow2((n - 1) % Retries)

\* the waits of one url: after the failed tries 0 .. Retries - 2
UrlWaits == [n \in 1 .. (Retries - 1) |-> BackoffBase * Pow2(n - 1)]

RECURSIVE Repeat(_, _)
Repeat(q, n) == IF n = 0 THEN <<>> ELSE q \o Repeat(q, n - 1)

\* C8 amended: the failed tries i = 0 and i = 1 of a url are followed by waits of
\* 1000 and 2000 ms; the third failed try is followed by no wait.
C8_WaitBetweenRetries ==
  \A p \in FwPairs :
    LET f == fw[p[1]][p[2]] IN
    Live(f) =>
      f.waits = Repeat(UrlWaits, f.url - 1)
                  \o SubSeq(UrlWaits, 1, IF f.st = "wait" THEN f.i + 1 ELSE f.i)

\* a fetch sequence is at the first try of the fallback, having waited 1 s and 2 s
C8_Witness ==
  \E p \in FwPairs :
    /\ fw[p[1]][p[2]].st = "fetch"
    /\ fw[p[1]][p[2]].url = 2
    /\ fw[p[1]][p[2]].i = 0
    /\ fw[p[1]][p[2]].waits = <<1000, 2000>>

\* C9: totalFrames is floor(duration * fps), and a successful export has written
\* the files of the frames 0 .. totalFrames - 1, each once and nothing else.
C9_FramesExact ==
  ex.result = "blob" =>
    /\ ex.totalFrames * ex.duration.d <= ex.duration.n * ex.fps
    /\ ex.duration.n * ex.fps < (ex.totalFrames + 1) * ex.duration.d
    /\ DOMAIN written = {FrameName(f) : f \in 0 .. (ex.totalFrames - 1)}
    /\ Cardinality(DOMAIN written) = ex.totalFrames
    /\ \A name \in DOMAIN written : written[name] = 1
    /\ DOMAIN frames = 0 .. (ex.totalFrames - 1)

\* an export of more than one batch, the last one not full, has succeeded
C9_Witness ==
  /\ ex.result = "blob"
  /\ ex.totalFrames > BatchSize
  /\ ex.totalFrames % BatchSize # 0

\* C10: no batch has more than 5 frames, and a frame of a later batch is launched
\* only when every frame of the earlier batches is captured and written.
C10_BatchBarrier ==
  /\ \A f \in DOMAIN frames :
       Cardinality({g \in DOMAIN frames : frames[g].batch = frames[f].batch}) <= BatchSize
  /\ \A f, g \in DOMAIN frames :
       frames[f].batch < frames[g].batch => frames[f].st = "done"

\* the second batch is being captured after a full first batch
C10_Witness ==
  /\ Cardinality({f \in DOMAIN frames : frames[f].batch = 1 /\ frames[f].st = "done"}) = BatchSize
  /\ \E g \in DOMAIN frames : frames[g].batch = 2 /\ frames[g].st = "capture"

\* C11: an export calls exec at most once, and when it does the files of all
\* the frames 0 .. totalFrames - 1 have been written.
C11_EncodeAfterWrites ==
  /\ Len(execCalls) <= 1
  /\ \A n \in DOMAIN execCalls :
       \A f \in 0 .. (ex.totalFrames - 1) :
         /\ FrameName(f) \in execCalls[n].input
         /\ FrameName(f) \in DOMAIN written
         /\ frames[f].st = "done"

\* exec has been called by an export of more than one batch
C11_Witness ==
  /\ Len(execCalls) = 1
  /\ ex.pc = "exec"
  /\ ex.totalFrames > BatchSize

\* C12: once the export has settled, with a blob or with an error, neither the
\* frames directory nor output.mp4 exists in the encoder's storage.
C12_StorageCleared ==
  ex.result # "none" => (~fs.dir /\ ~fs.out)

\* C13: once the export has settled, on whatever path, the clone is not
\* attached to the document.
C13_CloneDetached ==
  ex.result # "none" => clone # "attached"

\* a failed write has rejected the export and the clone has left the document
C13_Witness ==
  /\ ex.result = "rejected"
  /\ ex.cause[1] = "write"
  /\ clone = "removed"

\* C14: once a frame has failed, the export is rejected, exec has not been
\* called and is not called afterwards, and the clone has left the document.
C14_CaptureFailureStops ==
  (\E f \in DOMAIN frames : frames[f].st = "failed") =>
    /\ ex.result = "rejected"
    /\ ex.pc = "failed"
    /\ execCalls = <<>>
    /\ clone = "removed"

\* a capture of the second batch has failed and the frames launched with it
\* have all run to their end
C14_Witness ==
  /\ ex.result = "rejected"
  /\ ex.cause[1] = "capture"
  /\ ex.cause[2] >= BatchSize
  /\ \A f \in DOMAIN frames : frames[f].st \in {"done", "failed"}

\* C15: an export whose getFFmpeg call was rejected has created no clone and
\* no frames directory, has captured and written no frame and has not encoded.
C15_AcquireFailsFirst ==
  (ex.pc = "failed" /\ calls[ex.call].result = "rejected") =>
    /\ clone = "none"
    /\ frames = <<>>
    /\ fs = FsEmpty
    /\ written = <<>>
    /\ execCalls = <<>>
    /\ cloneAnim = NoAnim

\* the export was rejected because the initialization it started failed
C15_Witness ==
  /\ ex.pc = "failed"
  /\ calls[ex.call].result = "rejected"
  /\ ex.result = "rejected"

\* the awaited encoder calls of exportToVideo
EncoderSteps == {"createDir", "exec", "read", "deleteDir", "delete"}

\* C16: a step in which the acquisition, a frame's capture or write, or an
\* awaited encoder call fails leaves the export rejected with the failure's own
\* cause, and a rejected export never becomes a resolved one.
C16_NoSwallow ==
  [][
      /\ (ex.pc = "acquire" /\ ex'.pc # "acquire" /\ calls[ex.call].result = "rejected")
           => (ex'.result = "rejected" /\ ex'.cause = calls[ex.call].cause)
      /\ \A f \in DOMAIN frames :
           (frames[f].st \in {"capture", "write"} /\ f \in DOMAIN frames'
              /\ frames'[f].st = "failed")
           => /\ ex'.result = "rejected"
              /\ (ex.result = "none" => ex'.cause = <<frames[f].st, f>>)
      /\ (ex.pc \in EncoderSteps /\ ex'.pc = "failed")
           => (ex'.result = "rejected" /\ ex'.cause = <<ex.pc>>)
      /\ (ex'.pc = "failed") => (ex'.result = "rejected" /\ ex'.cause # <<>>)
      /\ (ex.result = "rejected") => (ex'.result = "rejected")
      /\ (ex'.result = "blob") => (ex.pc = "delete" /\ ex.result = "none")
  ]_vars

\* the export was rejected with the cause of the deleteDir call that failed
C16_Witness ==
  /\ ex.result = "rejected"
  /\ ex.cause = <<"deleteDir">>
  /\ fs.out

\* the run before the current one
Previous == runs[Len(runs)]

\* C17: an export called after a successful one with the same inputs is handed
\* the loaded encoder and an empty storage, and when it succeeds it has written
\* the same files and called exec with the same arguments as the one before.
C17_RepeatEquivalent ==
  (runs # <<>> /\ Previous.result = "blob") =>
    /\ Previous.opts = ex.opts
    /\ (ex.pc \in {"idle", "acquire", "createDir"}) => (fs = FsEmpty)
    /\ (ex.pc = "createDir") => loaded[ex.ff]
    /\ (ex.result = "rejected") => (ex.cause \in {<<"capture", f>> : f \in FrameIds}
                                       \cup {<<"write", f>> : f \in FrameIds}
                                       \cup {<<p>> : p \in {"createDir", "exec", "read",
                                                             "deleteDir", "delete"}})
    /\ (ex.result = "blob") =>
         /\ written = Previous.written
         /\ execCalls = Previous.execCalls

\* two exports of more than one batch have succeeded one after the other
C17_Witness ==
  /\ runs # <<>>
  /\ Previous.result = "blob"
  /\ ex.result = "blob"
  /\ ex.totalFrames > BatchSize

\* C18: a successful export has written floor(duration * fps) frames and made
\* one exec call, whose -framerate is the decimal string of the fps option (30
\* when it is not set) and whose -crf is that of the quality option (23 when
\* it is not set).
C18_FramesAndArgs ==
  (ex.result = "blob") =>
    LET F == IF "fps" \in ex.opts.given THEN ex.opts.fps ELSE DefaultFps
        Q == IF "quality" \in ex.opts.given THEN ex.opts.quality ELSE DefaultQuality
        D == ex.opts.duration
    IN /\ Cardinality(DOMAIN written) = (D.n * F) \div D.d
       /\ \A name \in DOMAIN written : written[name] = 1
       /\ Len(execCalls) = 1
       /\ execCalls[1].framerate = toString(F)
       /\ execCalls[1].crf = toString(Q)

\* an export called without fps has succeeded at 30 frames a second
C18_Witness ==
  /\ ex.result = "blob"
  /\ "fps" \notin ex.opts.given
  /\ execCalls[1].framerate = <<"3", "0">>
  /\ execCalls[1].crf = <<"2", "3">>

\* the code, for lexical comparison, of the first character of an element of a
\* frame name: '.' is 46, the digits are 48 .. 57, 'f' is 102
Code(c) ==
  CASE c = ".png" -> 46
    [] c = "frames/frame" -> 102
    [] OTHER -> 47 + (CHOOSE d \in 1 .. 10 : DigitChar[d] = c)

\* a < b for strings, as JavaScript compares them
RECURSIVE LexLess(_, _)
LexLess(a, b) ==
  IF a = <<>> THEN b # <<>>
  ELSE IF b = <<>> THEN FALSE
  ELSE IF Head(a) = Head(b) THEN LexLess(Tail(a), Tail(b))
  ELSE Code(Head(a)) < Code(Head(b))

\* 'frames/frame' + six digits + '.png'
SixDigitName(name) ==
  /\ Len(name) = PadWidth + 2
  /\ name[1] = "frames/frame"
  /\ name[Len(name)] = ".png"
  /\ \A k \in 2 .. (Len(name) - 1) : \E d \in 1 .. 10 : name[k] = DigitChar[d]

\* C19: every frame name is 'frame', six digits and '.png', the name of a
\* smaller index is lexically smaller, and two indices never share a name.
C19_NamesOrdered ==
  /\ SixDigitName(probe.ni)
  /\ (probe.i < probe.j) => LexLess(probe.ni, probe.nj)
  /\ (probe.i # probe.j) => (probe.ni # probe.nj)

\* C20: a frame is rasterized with the clone in the state that its own
\* applyAnimations call set.
C20_NoCloneRace ==
  \A f \in DOMAIN frames :
    frames[f].st \in {"capture", "write", "done"} => frames[f].seen = f

\* C26: once the export has settled, nothing of it runs any more: no frame of
\* it changes its state and the encoder's storage stays as it is.
C26_NothingAfterSettle ==
  [][
      (ex.result # "none" /\ ex'.result = ex.result) => (frames' = frames /\ fs' = fs)
  ]_vars

\* C27: isLoading holds exactly when loadingPromise is set, a loading session
\* has its encoder constructed, and with no attempt in flight and the last one
\* failed (or none made) ffmpeg is null.
C27_ModuleStateConsistent ==
  /\ isLoading <=> (loadingPromise # 0)
  /\ isLoading => (ffmpeg # 0 /\ ffmpeg = loadingPromise)
  /\ isLoading <=> (\E k \in Attempts : iife[k].phase \in {"fetching", "blobs", "urls", "loading"})
  /\ (Constructed = 0 \/ iife[Constructed].phase = "rejected") => (ffmpeg = 0 /\ ~isLoading)

\* a second attempt is loading after the first one failed
C27_Witness ==
  /\ isLoading
  /\ Constructed = 2
  /\ iife[1].phase = "rejected"
  /\ iife[2].phase = "loading"

\* C28: exec is called only with at least one frame written.
C28_NoEncodeWithoutFrames ==
  \A n \in DOMAIN execCalls : execCalls[n].input # {}

\* C21: when applyAnimations has resolved for a frame, the playhead of its
\* timeline is where the call put it: at the frame's own position.
C21_DeterministicSeek ==
  \A f \in DOMAIN frames : frames[f].st # "anim" => frames[f].pos = f

\* C23: once the export has settled, no 3D renderer created for one of its
\* frames is left undisposed.
C23_RenderersDisposed ==
  ex.result # "none" => (\A f \in DOMAIN frames : frames[f].renderer # "live")

C25_SourceUntouched ==
  source = SourceStart

\* an export has succeeded: its clone was styled, animated and removed
C25_Witness ==
  /\ ex.result = "blob"
  /\ clone = "removed"
  /\ cloneAnim = ex.totalFrames - 1
  /\ source = SourceStart

\* an export is in flight: called and not settled
InFlight == ex.pc # "idle" /\ ex.result = "none"

\* C29: isExporting holds while the component's export is in flight and until
\* its handler is over, no export is started while it holds, and once the
\* export has settled it is eventually reset.
C29_ExportingFlag ==
  /\ []((InFlight \/ ui.awaiting) => ui.isExporting)
  /\ [][(ui'.clicks # ui.clicks) => (~ui.isExporting /\ ~InFlight /\ ~ui.awaiting)]_vars
  /\ ((ui.awaiting /\ ex.result # "none") ~> ~ui.isExporting)

\* the second export started from the component has failed and the flag is reset
C29_Witness ==
  /\ ui.clicks = MaxRuns
  /\ ~ui.isExporting
  /\ ~ui.awaiting
  /\ ex.result = "rejected"
  /\ runs # <<>>

====
